---- MODULE Spec2Model ----
(***************************************************************************)
(* Model of the rpmoci lockfile aggregate (src/lockfile/mod.rs): the       *)
(* compatibility checks against the declared configuration, write_to_file, *)
(* the serde-derived persisted format and print_updates.                   *)
(***************************************************************************)
EXTENDS Integers, Sequences, FiniteSets, TLC

VARIABLES
    lock,       \* the Lockfile value the methods are called on (&self)
    cfg,        \* the declared configuration (&Config)
    disk,       \* the local RPM inputs the configuration references
    ret,        \* the value returned by the last call
    edit,       \* history: the last change made to the local RPM inputs
    previous,   \* print_updates: the previous lockfile (Option<&Lockfile>)
    new,        \* print_updates: the local BTreeMap `new`
    old,        \* print_updates: the part of `old` the for loop has not visited
    out,        \* print_updates: the records handed to write::ok so far
    pc,         \* position inside the running method
    file,       \* the file at `path`
    fileBefore, \* history: the file at `path` when write_to_file was called
    body,       \* write_to_file: the String toml::to_string_pretty returned
    loaded      \* the result of deserializing the file at `path`

vars == <<lock, cfg, disk, ret, edit, previous, new, old, out, pc, file,
          fileBefore, body, loaded>>

(***************************************************************************)
(* Bounds of the model.                                                    *)
(***************************************************************************)
MaxSpecs == 2
MaxKeys == 1
MaxReqs == 1
MaxPkgs == 2

(***************************************************************************)
(* Strings.  Rust compares String values bytewise; StrTable lists every    *)
(* string of the model in that order.                                      *)
(***************************************************************************)
StrTable ==
    <<"1.0", "1.1", "A", "B", "C", "aa", "base", "bb", "r1", "r2", "updates",
      "x", "x86_64", "y">>

StrRank(s) == CHOOSE i \in 1..Len(StrTable) : StrTable[i] = s

StrCmp(a, b) ==
    IF StrRank(a) < StrRank(b) THEN -1 ELSE IF StrRank(a) > StrRank(b) THEN 1 ELSE 0

\* Sequences over S of length at most n.
SeqsUpTo(S, n) == UNION {[1..k -> S] : k \in 0..n}

\* Option<T>: None is <<>>, Some(x) is <<x>>.
None == <<>>
Some(x) == <<x>>

\* derive(PartialOrd, Ord) on Algorithm: the declaration order of the variants.
AlgorithmRank(a) ==
    CASE a = "md5" -> 0
      [] a = "sha1" -> 1
      [] a = "sha256" -> 2
      [] a = "sha384" -> 3
      [] a = "sha512" -> 4

AlgorithmCmp(a, b) ==
    IF AlgorithmRank(a) < AlgorithmRank(b) THEN -1
    ELSE IF AlgorithmRank(a) > AlgorithmRank(b) THEN 1 ELSE 0

\* derive(Ord) on Checksum: algorithm, then checksum.
ChecksumCmp(a, b) ==
    IF AlgorithmCmp(a.algorithm, b.algorithm) # 0
    THEN AlgorithmCmp(a.algorithm, b.algorithm)
    ELSE StrCmp(a.checksum, b.checksum)

\* Ord on Option<String>: None sorts before every Some.
OptionCmp(a, b) ==
    IF a = None /\ b = None THEN 0
    ELSE IF a = None THEN -1
    ELSE IF b = None THEN 1
    ELSE StrCmp(a[1], b[1])

\* derive(Ord) on Package: name, evr, checksum, repoid, arch, in that order.
PackageCmp(p, q) ==
    IF StrCmp(p.name, q.name) # 0 THEN StrCmp(p.name, q.name)
    ELSE IF StrCmp(p.evr, q.evr) # 0 THEN StrCmp(p.evr, q.evr)
    ELSE IF ChecksumCmp(p.checksum, q.checksum) # 0
         THEN ChecksumCmp(p.checksum, q.checksum)
    ELSE IF StrCmp(p.repoid, q.repoid) # 0 THEN StrCmp(p.repoid, q.repoid)
    ELSE OptionCmp(p.arch, q.arch)

\* BTreeSet<Package>::iter: the elements in ascending Ord order.
RECURSIVE IterPackages(_)
IterPackages(S) ==
    IF S = {} THEN <<>>
    ELSE LET m == CHOOSE p \in S : \A q \in S : PackageCmp(p, q) <= 0
         IN <<m>> \o IterPackages(S \ {m})

\* Vec<T> == Vec<T>: equal lengths and equal elements position by position.
VecEq(a, b) ==
    /\ Len(a) = Len(b)
    /\ \A i \in 1..Len(a) : a[i] = b[i]

(***************************************************************************)
(* The compatibility checks.                                               *)
(***************************************************************************)
\* A mutant of is_compatible_excluding_local_rpms: pkg_specs compared as sets.
is_compatible_excluding_local_rpms_setwise(self, c) ==
    /\ {self.pkg_specs[i] : i \in 1..Len(self.pkg_specs)}
         = {c.contents.packages[i] : i \in 1..Len(c.contents.packages)}
    /\ VecEq(self.global_key_specs, c.contents.gpgkeys)

is_compatible_excluding_local_rpms(self, c) ==
    /\ VecEq(self.pkg_specs, c.contents.packages)
    /\ VecEq(self.global_key_specs, c.contents.gpgkeys)

\* Result<T>: Ok(v) is <<"Ok", v>>, an error is <<"Err">>.
Ok(v) == <<"Ok", v>>
Err == <<"Err">>
IsOk(r) == r[1] = "Ok"

\* The requirement strings of one requires list.
Requires(p) == {p.requires[i] : i \in 1..Len(p.requires)}

\* read_local_rpm_deps(cfg): the set of the requirement strings the local
\* RPMs referenced by the configuration declare, or an error when they
\* cannot be read or parsed.
read_local_rpm_deps(c, d) ==
    IF ~d.readable THEN Err
    ELSE Ok(UNION {Requires(d.rpms[r]) : r \in DOMAIN d.rpms})

\* self.local_packages.clone().into_iter().flat_map(|p| p.requires).collect()
local_package_deps(self) == UNION {Requires(p) : p \in self.local_packages}

\* Mutants of is_compatible_including_local_rpms: the local RPMs are read
\* before the declaration is compared; a read error is turned into false; the
\* requires lists are compared package by package; the local RPMs must have
\* the version "1.0".
is_compatible_including_local_rpms_always_reads(self, c, d) ==
    LET r == read_local_rpm_deps(c, d)
    IN IF IsOk(r) THEN Ok(r[2] = local_package_deps(self)) ELSE Err

is_compatible_including_local_rpms_swallows(self, c, d) ==
    LET r == read_local_rpm_deps(c, d)
    IN Ok(/\ is_compatible_excluding_local_rpms(self, c)
          /\ IsOk(r)
          /\ r[2] = local_package_deps(self))

is_compatible_including_local_rpms_per_package(self, c, d) ==
    IF ~is_compatible_excluding_local_rpms(self, c) THEN Ok(FALSE)
    ELSE IF ~d.readable THEN Err
    ELSE Ok({d.rpms[r].requires : r \in DOMAIN d.rpms}
              = {p.requires : p \in self.local_packages})

is_compatible_including_local_rpms_pinned(self, c, d) ==
    IF ~is_compatible_excluding_local_rpms(self, c) THEN Ok(FALSE)
    ELSE LET r == read_local_rpm_deps(c, d)
         IN IF ~IsOk(r) THEN Err
            ELSE Ok(/\ r[2] = local_package_deps(self)
                    /\ \A x \in DOMAIN d.rpms : d.rpms[x].version = "1.0")

\* Ok(excluding && read_local_rpm_deps(cfg)? == local_package_deps): `&&`
\* evaluates its right operand, and so the `?`, only when the left is true.
is_compatible_including_local_rpms(self, c, d) ==
    IF ~is_compatible_excluding_local_rpms(self, c) THEN Ok(FALSE)
    ELSE LET r == read_local_rpm_deps(c, d)
         IN IF ~IsOk(r) THEN Err
            ELSE Ok(r[2] = local_package_deps(self))

(***************************************************************************)
(* Values the specifications draw their inputs from.                       *)
(***************************************************************************)
PkgSpecStrings == {"A", "B"}
\* url::Url values: the parsed parts of a key-source URL.
KeyUrls == {[scheme |-> "https", host |-> h, path |-> "/key"] : h \in {"k1", "k2"}}
ReqStrings == {"r1", "r2"}
LocalRpms == {"x", "y"}
Versions == {"1.0", "1.1"}

Md5aa == [algorithm |-> "md5", checksum |-> "aa"]
Sha256bb == [algorithm |-> "sha256", checksum |-> "bb"]

\* The Package values of the model: every name and evr from the repository
\* "base", and a second edition of A that differs in checksum, repoid and arch.
PackageUniverse ==
    {[name |-> n, evr |-> e, checksum |-> Md5aa, repoid |-> "base", arch |-> None]
        : n \in {"A", "B", "C"}, e \in {"1.0", "1.1"}}
    \cup
    {[name |-> "A", evr |-> e, checksum |-> Sha256bb, repoid |-> "updates",
      arch |-> Some("x86_64")] : e \in {"1.0", "1.1"}}

EmptyMap == [r \in {} |-> FALSE]
BaseKeyInfo == [r \in {"base"} |-> [gpgcheck |-> TRUE, keys |-> <<"aa">>]]

ReqLists == SeqsUpTo(ReqStrings, MaxReqs)

\* One LocalPackage record for each local RPM, as a resolution records them.
LocalPackageSets ==
    {{[name |-> r, requires |-> f[r]] : r \in LocalRpms} : f \in [LocalRpms -> ReqLists]}

Lockfile(specs, pkgs, locals, gpg, keys) ==
    [pkg_specs |-> specs, packages |-> pkgs, local_packages |-> locals,
     repo_gpg_config |-> gpg, global_key_specs |-> keys]

Config(specs, keys) == [contents |-> [packages |-> specs, gpgkeys |-> keys]]

NoRet == [op |-> "none", val |-> "none"]
NoEdit == [kind |-> "none", wasCompatible |-> FALSE, unionChanged |-> FALSE]
NoDisk == [readable |-> TRUE,
           rpms |-> [r \in LocalRpms |-> [version |-> "1.0", requires |-> <<>>]]]
NoFile == [exists |-> FALSE, data |-> <<>>]

\* The variables a specification does not use keep these values.
IdleCompat ==
    /\ previous = None /\ new = EmptyMap /\ old = EmptyMap /\ out = <<>>
    /\ pc = "idle" /\ file = NoFile /\ fileBefore = NoFile /\ body = <<>>
    /\ loaded = NoRet

(***************************************************************************)
(* SpecExcl: is_compatible_excluding_local_rpms on every lockfile and      *)
(* configuration of the bounds.                                            *)
(***************************************************************************)
InitExcl ==
    /\ \E specs \in SeqsUpTo(PkgSpecStrings, MaxSpecs),
          keys \in SeqsUpTo(KeyUrls, MaxKeys),
          full \in BOOLEAN :
          lock = IF full
                 THEN Lockfile(specs,
                               {p \in PackageUniverse : p.name = "A" /\ p.evr = "1.0"},
                               {[name |-> "x", requires |-> <<"r1">>]},
                               BaseKeyInfo, keys)
                 ELSE Lockfile(specs, {}, {}, EmptyMap, keys)
    /\ \E specs \in SeqsUpTo(PkgSpecStrings, MaxSpecs),
          keys \in SeqsUpTo(KeyUrls, MaxKeys) : cfg = Config(specs, keys)
    /\ disk = NoDisk /\ ret = NoRet /\ edit = NoEdit
    /\ IdleCompat

CheckExcluding ==
    /\ ret' = [op |-> "excluding", val |-> is_compatible_excluding_local_rpms(lock, cfg)]
    /\ UNCHANGED <<lock, cfg, disk, edit, previous, new, old, out, pc, file,
                   fileBefore, body, loaded>>

NextExcl == CheckExcluding

SpecExcl == InitExcl /\ [][NextExcl]_vars

\* a and b hold the same elements the same number of times.
IsPermutation(a, b) ==
    /\ Len(a) = Len(b)
    /\ \E f \in [1..Len(a) -> 1..Len(a)] :
          /\ \A i, j \in 1..Len(a) : i # j => f[i] # f[j]
          /\ \A i \in 1..Len(a) : a[i] = b[f[i]]

\* C1: is_compatible_excluding_local_rpms returns true exactly when pkg_specs
\* equals the declared packages and global_key_specs equals the declared
\* gpgkeys as sequences; a reordering of the same specs gives false, and
\* packages, local_packages and repo_gpg_config play no part.
C1_ExcludingIsExactSequenceEquality ==
    ret.op = "excluding" =>
        /\ ret.val = (/\ lock.pkg_specs = cfg.contents.packages
                      /\ lock.global_key_specs = cfg.contents.gpgkeys)
        /\ (/\ IsPermutation(lock.pkg_specs, cfg.contents.packages)
            /\ lock.pkg_specs # cfg.contents.packages) => ret.val = FALSE
        /\ Len(lock.pkg_specs) # Len(cfg.contents.packages) => ret.val = FALSE
        /\ Len(lock.global_key_specs) # Len(cfg.contents.gpgkeys) => ret.val = FALSE

C1_Witness ==
    /\ ret.op = "excluding"
    /\ ret.val = FALSE
    /\ IsPermutation(lock.pkg_specs, cfg.contents.packages)
    /\ lock.global_key_specs = cfg.contents.gpgkeys
    /\ lock.packages # {}

(***************************************************************************)
(* SpecIncl: is_compatible_including_local_rpms while the declared         *)
(* configuration and the local RPMs on disk change under the lockfile.     *)
(***************************************************************************)
DeclaredIncl == {Config(<<"A", "B">>, <<>>), Config(<<"B", "A">>, <<>>)}
LockedKeysIncl == {<<>>, <<CHOOSE u \in KeyUrls : u.host = "k1">>}

InitIncl ==
    /\ \E keys \in LockedKeysIncl, locals \in LocalPackageSets :
          lock = Lockfile(<<"A", "B">>, {}, locals, EmptyMap, keys)
    /\ cfg \in DeclaredIncl
    /\ \E readable \in BOOLEAN,
          rpms \in [LocalRpms -> [version : {"1.0"}, requires : ReqLists]] :
          disk = [readable |-> readable, rpms |-> rpms]
    /\ ret = NoRet /\ edit = NoEdit
    /\ IdleCompat

CheckIncluding ==
    /\ ret' = [op |-> "including",
               val |-> is_compatible_including_local_rpms(lock, cfg, disk)]
    /\ UNCHANGED <<lock, cfg, disk, edit, previous, new, old, out, pc, file,
                   fileBefore, body, loaded>>

WasCompatible == ret.op = "including" /\ ret.val = Ok(TRUE)

DiskUnion(d) == UNION {Requires(d.rpms[r]) : r \in DOMAIN d.rpms}

\* The user edits the declared configuration.
DeclareConfig ==
    /\ \E c \in DeclaredIncl : c # cfg /\ cfg' = c
    /\ ret' = NoRet /\ edit' = NoEdit
    /\ UNCHANGED <<lock, disk, previous, new, old, out, pc, file, fileBefore,
                   body, loaded>>

\* A local RPM is rebuilt with another version and the same requirements.
RebuildLocalRpm ==
    /\ \E r \in LocalRpms, v \in Versions :
          /\ v # disk.rpms[r].version
          /\ disk' = [disk EXCEPT !.rpms[r].version = v]
    /\ edit' = [kind |-> "version", wasCompatible |-> WasCompatible,
                unionChanged |-> FALSE]
    /\ ret' = NoRet
    /\ UNCHANGED <<lock, cfg, previous, new, old, out, pc, file, fileBefore,
                   body, loaded>>

\* A local RPM is replaced by one that declares other requirements.
ChangeRequires ==
    /\ \E r \in LocalRpms, reqs \in ReqLists :
          /\ reqs # disk.rpms[r].requires
          /\ disk' = [disk EXCEPT !.rpms[r].requires = reqs]
    /\ edit' = [kind |-> "requires", wasCompatible |-> WasCompatible,
                unionChanged |-> DiskUnion(disk') # DiskUnion(disk)]
    /\ ret' = NoRet
    /\ UNCHANGED <<lock, cfg, previous, new, old, out, pc, file, fileBefore,
                   body, loaded>>

\* The local RPM inputs become unreadable (removed, unmounted, corrupted).
BreakLocalRpms ==
    /\ disk.readable
    /\ disk' = [disk EXCEPT !.readable = FALSE]
    /\ ret' = NoRet /\ edit' = NoEdit
    /\ UNCHANGED <<lock, cfg, previous, new, old, out, pc, file, fileBefore,
                   body, loaded>>

RestoreLocalRpms ==
    /\ ~disk.readable
    /\ disk' = [disk EXCEPT !.readable = TRUE]
    /\ ret' = NoRet /\ edit' = NoEdit
    /\ UNCHANGED <<lock, cfg, previous, new, old, out, pc, file, fileBefore,
                   body, loaded>>

NextIncl ==
    \/ CheckIncluding
    \/ DeclareConfig
    \/ RebuildLocalRpm
    \/ ChangeRequires
    \/ BreakLocalRpms
    \/ RestoreLocalRpms

SpecIncl == InitIncl /\ [][NextIncl]_vars

\* The narrower check, stated on the two lists themselves.
SameDeclaration ==
    /\ lock.pkg_specs = cfg.contents.packages
    /\ lock.global_key_specs = cfg.contents.gpgkeys

\* C2: whenever the check excluding local RPMs is false, the check including
\* them returns Ok(false) or an error, never Ok(true), whatever the state of
\* the local RPM inputs.
C2_IncludingNeverPassesWhenExcludingFails ==
    (ret.op = "including" /\ ~SameDeclaration) => ret.val # Ok(TRUE)

C2_Witness ==
    /\ ret.op = "including"
    /\ ~SameDeclaration
    /\ disk.readable
    /\ DiskUnion(disk) = UNION {Requires(p) : p \in lock.local_packages}
    /\ ret.val = Ok(FALSE)

\* C3 as stated: whenever the local RPM inputs cannot be read, the check
\* including local RPMs returns an error and never Ok(false), also when the
\* declared lists already differ from the lockfile's.
C3_UnreadableAlwaysErrors ==
    (ret.op = "including" /\ ~disk.readable) => ret.val = Err

\* C3 amended: when the declared lists equal the lockfile's and the local
\* RPM inputs cannot be read, the check returns an error; when the declared
\* lists differ, it returns Ok(false) without reading the local RPM inputs,
\* readable or not.
C3_UnreadableErrorsWhenDeclarationMatches ==
    ret.op = "including" =>
        /\ (SameDeclaration /\ ~disk.readable) => ret.val = Err
        /\ ~SameDeclaration => ret.val = Ok(FALSE)
        /\ ret.val = Err => ~disk.readable

C3_Witness ==
    /\ ret.op = "including"
    /\ SameDeclaration
    /\ ~disk.readable
    /\ ret.val = Err

\* C4 as stated: after any change to one local RPM's requirement list made
\* while the lockfile was compatible, the check returns Ok(false).
C4_RequiresChangeFlipsToFalse ==
    (ret.op = "including" /\ edit.kind = "requires" /\ edit.wasCompatible)
        => ret.val = Ok(FALSE)

\* C4 amended: after a change to one local RPM's requirement list made while
\* the lockfile was compatible, the check returns Ok(false) exactly when the
\* change altered the set of requirement strings all local RPMs declare
\* together, and Ok(true) when that set is unchanged.
C4_RequiresChangeFlipsIffUnionChanges ==
    (ret.op = "including" /\ edit.kind = "requires" /\ edit.wasCompatible)
        => ret.val = Ok(~edit.unionChanged)

C4_Witness ==
    /\ ret.op = "including"
    /\ edit.kind = "requires"
    /\ edit.wasCompatible
    /\ edit.unionChanged
    /\ ret.val = Ok(FALSE)

\* C5: after a local RPM is replaced by one with another version and the
\* same requirements while the lockfile was compatible, the check still
\* returns Ok(true).
C5_VersionChangeKeepsCompatible ==
    (ret.op = "including" /\ edit.kind = "version" /\ edit.wasCompatible)
        => ret.val = Ok(TRUE)

C5_Witness ==
    /\ ret.op = "including"
    /\ edit.kind = "version"
    /\ edit.wasCompatible
    /\ \E r \in LocalRpms : disk.rpms[r].version # "1.0"
    /\ \E r \in LocalRpms : disk.rpms[r].requires # <<>>
    /\ ret.val = Ok(TRUE)

(***************************************************************************)
(* print_updates.                                                          *)
(***************************************************************************)
\* BTreeMap::insert: a later value replaces the one stored under the key.
Insert(m, k, v) == [x \in DOMAIN m \cup {k} |-> IF x = k THEN v ELSE m[x]]

\* iter().map(|pkg| (&pkg.name, &pkg.evr)).collect::<BTreeMap<_, _>>(): the
\* pairs are inserted in the order the iterator yields them.
RECURSIVE collect_name_evr(_)
collect_name_evr(pkgs) ==
    IF pkgs = <<>> THEN EmptyMap
    ELSE LET m == collect_name_evr(SubSeq(pkgs, 1, Len(pkgs) - 1))
         IN Insert(m, pkgs[Len(pkgs)].name, pkgs[Len(pkgs)].evr)

\* A mutant of FirstKey: the greatest key first.
FirstKeyLast(m) == CHOOSE k \in DOMAIN m : \A j \in DOMAIN m : StrCmp(k, j) >= 0

\* BTreeMap iteration starts at the least key.
FirstKey(m) == CHOOSE k \in DOMAIN m : \A j \in DOMAIN m : StrCmp(k, j) <= 0

Without(m, k) == [x \in DOMAIN m \ {k} |-> m[x]]

\* previous.map(|previous| ...).unwrap_or_default()
old_map(prev) ==
    IF prev = None THEN EmptyMap
    ELSE collect_name_evr(IterPackages(prev[1].packages))

\* write::ok(verb, message): hands one record to the diagnostics output; the
\* output can fail, and then nothing is recorded.
write_ok(o, rec, succeeds) == IF succeeds THEN Append(o, rec) ELSE o

Unit == "()"

PackageSets == {S \in SUBSET PackageUniverse : Cardinality(S) <= MaxPkgs}

IdlePrint ==
    /\ cfg = Config(<<>>, <<>>) /\ disk = NoDisk /\ edit = NoEdit
    /\ file = NoFile /\ fileBefore = NoFile /\ body = <<>> /\ loaded = NoRet

InitPrint ==
    /\ \E pkgs \in PackageSets : lock = Lockfile(<<>>, pkgs, {}, EmptyMap, <<>>)
    /\ \/ previous = None
       \/ \E pkgs \in PackageSets :
             previous = Some(Lockfile(<<>>, pkgs, {}, EmptyMap, <<>>))
    /\ new = EmptyMap /\ old = EmptyMap /\ out = <<>>
    /\ pc = "idle" /\ ret = NoRet
    /\ IdlePrint

\* Lines 179-192: the two maps are built.
PrintBegin ==
    /\ pc = "idle"
    /\ new' = collect_name_evr(IterPackages(lock.packages))
    /\ old' = old_map(previous)
    /\ out' = <<>>
    /\ pc' = "old_loop"
    /\ UNCHANGED <<lock, cfg, disk, ret, edit, previous, file, fileBefore, body,
                   loaded>>

\* The record one iteration of `for (name, evr) in old` hands to write::ok,
\* or None.
old_loop_record(name, evr, n) ==
    IF name \in DOMAIN n
    THEN IF n[name] # evr THEN Some(<<"Updating", name, evr, n[name]>>) ELSE None
    ELSE Some(<<"Removing", name, evr>>)

\* Lines 194-202: one iteration of the loop over `old`.
PrintOldStep ==
    /\ pc = "old_loop"
    /\ DOMAIN old # {}
    /\ LET name == FirstKey(old)
           rec == old_loop_record(name, old[name], new)
       IN /\ old' = Without(old, name)
          /\ new' = Without(new, name)
          /\ \/ /\ rec = None
                /\ UNCHANGED <<out, pc, ret>>
             \/ /\ rec # None
                /\ \E succeeds \in BOOLEAN :
                      /\ out' = write_ok(out, rec[1], succeeds)
                      /\ IF succeeds THEN UNCHANGED <<pc, ret>>
                         ELSE /\ pc' = "returned"
                              /\ ret' = [op |-> "print_updates", val |-> Err]
    /\ UNCHANGED <<lock, cfg, disk, edit, previous, file, fileBefore, body, loaded>>

\* Line 203: the loop over `old` is over.
PrintOldDone ==
    /\ pc = "old_loop"
    /\ DOMAIN old = {}
    /\ pc' = "new_loop"
    /\ UNCHANGED <<lock, cfg, disk, ret, edit, previous, new, old, out, file,
                   fileBefore, body, loaded>>

\* Lines 203-205: one iteration of the loop over what is left of `new`.
PrintNewStep ==
    /\ pc = "new_loop"
    /\ DOMAIN new # {}
    /\ LET name == FirstKey(new)
       IN /\ new' = Without(new, name)
          /\ \E succeeds \in BOOLEAN :
                /\ out' = write_ok(out, <<"Adding", name, new[name]>>, succeeds)
                /\ IF succeeds THEN UNCHANGED <<pc, ret>>
                   ELSE /\ pc' = "returned"
                        /\ ret' = [op |-> "print_updates", val |-> Err]
    /\ UNCHANGED <<lock, cfg, disk, edit, previous, old, file, fileBefore, body,
                   loaded>>

\* Line 207: Ok(()).
PrintReturn ==
    /\ pc = "new_loop"
    /\ DOMAIN new = {}
    /\ pc' = "returned"
    /\ ret' = [op |-> "print_updates", val |-> Ok(Unit)]
    /\ UNCHANGED <<lock, cfg, disk, edit, previous, new, old, out, file,
                   fileBefore, body, loaded>>

NextPrint ==
    \/ PrintBegin
    \/ PrintOldStep
    \/ PrintOldDone
    \/ PrintNewStep
    \/ PrintReturn

SpecPrint == InitPrint /\ [][NextPrint]_vars

\* What the claims about print_updates speak of.
PrevPackages == IF previous = None THEN {} ELSE previous[1].packages
Names(pkgs) == {p.name : p \in pkgs}
Evrs(pkgs, n) == {p.evr : p \in {q \in pkgs : q.name = n}}
RecordsOf(n) == {i \in 1..Len(out) : out[i][2] = n}
Printed == pc = "returned" /\ ret.op = "print_updates" /\ ret.val = Ok(Unit)

\* C6: the records come in two runs: first one record per name of the
\* previous lockfile that changed, in ascending name order (Updating with the
\* old and the new evr when the name is in the new lockfile with another evr,
\* Removing when it is absent from it), then one Adding record for each name
\* only in the new lockfile, in ascending name order.  No Adding record
\* precedes an Updating or Removing record, and without a previous lockfile
\* every new name is reported as added and nothing else is reported.
C6_RecordsInOrder ==
    /\ \A i, j \in 1..Len(out) : (i < j /\ out[i][1] = "Adding") => out[j][1] = "Adding"
    /\ \A i, j \in 1..Len(out) :
          (i < j /\ (out[i][1] = "Adding" <=> out[j][1] = "Adding"))
              => StrRank(out[i][2]) < StrRank(out[j][2])
    /\ \A i \in 1..Len(out) :
          CASE out[i][1] = "Updating" ->
                  /\ out[i][2] \in Names(PrevPackages) \cap Names(lock.packages)
                  /\ out[i][3] \in Evrs(PrevPackages, out[i][2])
                  /\ out[i][4] \in Evrs(lock.packages, out[i][2])
                  /\ out[i][3] # out[i][4]
            [] out[i][1] = "Removing" ->
                  /\ out[i][2] \in Names(PrevPackages) \ Names(lock.packages)
                  /\ out[i][3] \in Evrs(PrevPackages, out[i][2])
            [] out[i][1] = "Adding" ->
                  /\ out[i][2] \in Names(lock.packages) \ Names(PrevPackages)
                  /\ out[i][3] \in Evrs(lock.packages, out[i][2])
    /\ Printed =>
          /\ \A n \in Names(PrevPackages) \ Names(lock.packages) : RecordsOf(n) # {}
          /\ \A n \in Names(lock.packages) \ Names(PrevPackages) : RecordsOf(n) # {}
          /\ \A n \in Names(PrevPackages) \cap Names(lock.packages) :
                (/\ Cardinality(Evrs(PrevPackages, n)) = 1
                 /\ Cardinality(Evrs(lock.packages, n)) = 1
                 /\ Evrs(PrevPackages, n) # Evrs(lock.packages, n))
                    => RecordsOf(n) # {}
          /\ previous = None =>
                /\ Len(out) = Cardinality(Names(lock.packages))
                /\ \A i \in 1..Len(out) : out[i][1] = "Adding"

\* The example of the specification, with the evrs of the model: previous
\* {A 1.0, B 1.0}, new {A 1.1, C 1.0}.
C6_Witness ==
    /\ Printed
    /\ Names(PrevPackages) = {"A", "B"}
    /\ Names(lock.packages) = {"A", "C"}
    /\ out = << <<"Updating", "A", "1.0", "1.1">>, <<"Removing", "B", "1.0">>,
                <<"Adding", "C", "1.0">> >>

\* C7 as stated: every name of either lockfile gets at most one record: none
\* when it is in both with the same evrs, one Updating when it is in both with
\* different evrs, one Removing when only in the previous lockfile, one Adding
\* when only in the new one; also for sets with several entries of one name.
C7_OneOutcomePerName ==
    Printed =>
        \A n \in Names(PrevPackages) \cup Names(lock.packages) :
            /\ Cardinality(RecordsOf(n)) <= 1
            /\ (/\ n \in Names(PrevPackages) \cap Names(lock.packages)
                /\ Evrs(PrevPackages, n) = Evrs(lock.packages, n))
                   => RecordsOf(n) = {}
            /\ (/\ n \in Names(PrevPackages) \cap Names(lock.packages)
                /\ Evrs(PrevPackages, n) # Evrs(lock.packages, n))
                   => \E i \in RecordsOf(n) : out[i][1] = "Updating"
            /\ n \in Names(PrevPackages) \ Names(lock.packages)
                   => \E i \in RecordsOf(n) : out[i][1] = "Removing"
            /\ n \in Names(lock.packages) \ Names(PrevPackages)
                   => \E i \in RecordsOf(n) : out[i][1] = "Adding"

(***************************************************************************)
(* The persisted format and write_to_file.  The text of the file is a      *)
(* sequence of lines: comment lines <<"#", text>> and one <<key, value>>   *)
(* line for each top-level key of the TOML document.                       *)
(***************************************************************************)
\* Serialize for url::Url: the URL's text; Deserialize parses it back.
UrlToString(u) == <<u.scheme, "://", u.host, u.path>>
ParseUrl(t) == [scheme |-> t[1], host |-> t[3], path |-> t[4]]

MapSeq(f(_), q) == [i \in 1..Len(q) |-> f(q[i])]

\* derive(Serialize) on Package: a None arch writes no key.
SerializePackage(p) ==
    IF p.arch = None
    THEN [name |-> p.name, evr |-> p.evr, checksum |-> p.checksum, repoid |-> p.repoid]
    ELSE [name |-> p.name, evr |-> p.evr, checksum |-> p.checksum, repoid |-> p.repoid,
          arch |-> p.arch[1]]

\* derive(Deserialize) on Package: #[serde(default)] on arch.
DeserializePackage(t) ==
    [name |-> t.name, evr |-> t.evr, checksum |-> t.checksum, repoid |-> t.repoid,
     arch |-> IF "arch" \in DOMAIN t THEN Some(t.arch) ELSE None]

\* Ord on Vec<String>: the first differing element decides, and a proper
\* prefix sorts first.
RECURSIVE VecCmp(_, _)
VecCmp(a, b) ==
    IF a = <<>> /\ b = <<>> THEN 0
    ELSE IF a = <<>> THEN -1
    ELSE IF b = <<>> THEN 1
    ELSE IF StrCmp(Head(a), Head(b)) # 0 THEN StrCmp(Head(a), Head(b))
    ELSE VecCmp(Tail(a), Tail(b))

\* derive(Ord) on LocalPackage: name, then requires.
LocalPackageCmp(p, q) ==
    IF StrCmp(p.name, q.name) # 0 THEN StrCmp(p.name, q.name)
    ELSE VecCmp(p.requires, q.requires)

\* BTreeSet<LocalPackage>::iter.
RECURSIVE IterLocalPackages(_)
IterLocalPackages(S) ==
    IF S = {} THEN <<>>
    ELSE LET m == CHOOSE p \in S : \A q \in S : LocalPackageCmp(p, q) <= 0
         IN <<m>> \o IterLocalPackages(S \ {m})

Elements(q) == {q[i] : i \in 1..Len(q)}

\* toml::to_string_pretty(&self) under the serde attributes of Lockfile:
\* the fields in declaration order, the last three skipped when empty.
to_toml(self) ==
    << <<"pkg_specs", self.pkg_specs>>,
       <<"packages", MapSeq(SerializePackage, IterPackages(self.packages))>> >>
    \o (IF self.local_packages = {} THEN <<>>
        ELSE << <<"local_packages", IterLocalPackages(self.local_packages)>> >>)
    \o (IF DOMAIN self.repo_gpg_config = {} THEN <<>>
        ELSE << <<"repo_gpg_config", self.repo_gpg_config>> >>)
    \o (IF self.global_key_specs = <<>> THEN <<>>
        ELSE << <<"global_key_specs", MapSeq(UrlToString, self.global_key_specs)>> >>)

\* The top-level keys of the text and the value of one of them.
Keys(text) == {text[i][1] : i \in 1..Len(text)} \ {"#"}
Value(text, k) == text[CHOOSE i \in 1..Len(text) : text[i][1] = k][2]

\* A mutant of from_toml: no #[serde(default)] on global_key_specs.
from_toml_no_default(text) ==
    IF ~({"pkg_specs", "packages", "global_key_specs"} \subseteq Keys(text)) THEN Err
    ELSE Ok([pkg_specs |-> Value(text, "pkg_specs"),
             packages |-> Elements(MapSeq(DeserializePackage, Value(text, "packages"))),
             local_packages |->
                 IF "local_packages" \in Keys(text)
                 THEN Elements(Value(text, "local_packages")) ELSE {},
             repo_gpg_config |->
                 IF "repo_gpg_config" \in Keys(text)
                 THEN Value(text, "repo_gpg_config") ELSE EmptyMap,
             global_key_specs |-> MapSeq(ParseUrl, Value(text, "global_key_specs"))])

\* derive(Deserialize) on Lockfile: comment lines are skipped, pkg_specs and
\* packages are required, and #[serde(default)] makes the other three empty
\* when the text has no such key.
from_toml(text) ==
    IF ~({"pkg_specs", "packages"} \subseteq Keys(text)) THEN Err
    ELSE Ok([pkg_specs |-> Value(text, "pkg_specs"),
             packages |-> Elements(MapSeq(DeserializePackage, Value(text, "packages"))),
             local_packages |->
                 IF "local_packages" \in Keys(text)
                 THEN Elements(Value(text, "local_packages")) ELSE {},
             repo_gpg_config |->
                 IF "repo_gpg_config" \in Keys(text)
                 THEN Value(text, "repo_gpg_config") ELSE EmptyMap,
             global_key_specs |->
                 IF "global_key_specs" \in Keys(text)
                 THEN MapSeq(ParseUrl, Value(text, "global_key_specs")) ELSE <<>>])

\* The two lines written before the document (NAME in upper case).
Header ==
    << <<"#", "This file is @generated by RPMOCI">>,
       <<"#", "It is not intended for manual editing.">> >>

\* write_all(bytes) that gets n of the lines out before the device fails;
\* n = Len(bytes) is the write that succeeds.
write_all(f, bytes, n) == [f EXCEPT !.data = f.data \o SubSeq(bytes, 1, n)]

(***************************************************************************)
(* SpecPersist: write_to_file step by step, each step able to fail, the    *)
(* process able to be stopped between steps, and the file read back.       *)
(***************************************************************************)
PersistLockfiles ==
    {Lockfile(specs, pkgs, locals, gpg, keys) :
        specs \in {<<>>, <<"A", "B">>},
        pkgs \in {S \in PackageSets : Names(S) \subseteq {"A"}},
        locals \in {{}, {[name |-> "x", requires |-> <<"r2", "r1">>],
                         [name |-> "x", requires |-> <<"r1">>]}},
        gpg \in {EmptyMap, BaseKeyInfo},
        keys \in SeqsUpTo(KeyUrls, MaxKeys)}

\* The file a write_to_file that returned Ok leaves behind.
Complete(l) == [exists |-> TRUE, data |-> Header \o to_toml(l)]

OlderLockfile ==
    Lockfile(<<"A">>,
             {p \in PackageUniverse : p.name = "B" /\ p.evr = "1.0"}, {}, EmptyMap, <<>>)

InitPersist ==
    /\ lock \in PersistLockfiles
    /\ file \in {NoFile, Complete(OlderLockfile)}
    /\ fileBefore = file
    /\ pc = "idle" /\ ret = NoRet /\ body = <<>> /\ loaded = NoRet
    /\ cfg = Config(<<>>, <<>>) /\ disk = NoDisk /\ edit = NoEdit
    /\ previous = None /\ new = EmptyMap /\ old = EmptyMap /\ out = <<>>

WriteErr(step) == [op |-> "write_to_file", val |-> Err, at |-> step]

\* Line 165: std::fs::File::create(path)? creates the file or truncates it.
WriteCreate ==
    /\ pc = "idle"
    /\ fileBefore' = file
    /\ loaded' = NoRet
    /\ \/ /\ file' = [exists |-> TRUE, data |-> <<>>]
          /\ pc' = "header"
          /\ ret' = NoRet
       \/ /\ pc' = "returned"
          /\ ret' = WriteErr("create")
          /\ UNCHANGED file
    /\ UNCHANGED <<lock, cfg, disk, edit, previous, new, old, out, body>>

\* A mutant of WriteHeader: the result of the header's write_all is dropped.
WriteHeaderUnchecked ==
    /\ pc = "header"
    /\ \E n \in 0..Len(Header) : file' = write_all(file, Header, n)
    /\ pc' = "serialize"
    /\ UNCHANGED <<lock, cfg, disk, ret, edit, previous, new, old, out,
                   fileBefore, body, loaded>>

\* Lines 166-172: lock.write_all(header)?
WriteHeader ==
    /\ pc = "header"
    /\ \E n \in 0..Len(Header) :
          /\ file' = write_all(file, Header, n)
          /\ IF n = Len(Header)
             THEN pc' = "serialize" /\ UNCHANGED ret
             ELSE pc' = "returned" /\ ret' = WriteErr("header")
    /\ UNCHANGED <<lock, cfg, disk, edit, previous, new, old, out, fileBefore,
                   body, loaded>>

\* Line 173: toml::to_string_pretty(&self)?
WriteSerialize ==
    /\ pc = "serialize"
    /\ \/ /\ body' = to_toml(lock)
          /\ pc' = "body"
          /\ UNCHANGED ret
       \/ /\ pc' = "returned"
          /\ ret' = WriteErr("serialize")
          /\ UNCHANGED body
    /\ UNCHANGED <<lock, cfg, disk, edit, previous, new, old, out, file,
                   fileBefore, loaded>>

\* Lines 173-174: lock.write_all(body)?; Ok(())
WriteBody ==
    /\ pc = "body"
    /\ \E n \in 0..Len(body) :
          /\ file' = write_all(file, body, n)
          /\ pc' = "returned"
          /\ ret' = IF n = Len(body)
                    THEN [op |-> "write_to_file", val |-> Ok(Unit), at |-> "end"]
                    ELSE WriteErr("body")
    /\ UNCHANGED <<lock, cfg, disk, edit, previous, new, old, out, fileBefore,
                   body, loaded>>

\* The process is stopped between two steps of write_to_file.
Cancel ==
    /\ pc \in {"header", "serialize", "body"}
    /\ pc' = "cancelled"
    /\ UNCHANGED <<lock, cfg, disk, ret, edit, previous, new, old, out, file,
                   fileBefore, body, loaded>>

\* The file at `path` is read back into a Lockfile.
Load ==
    /\ pc \in {"idle", "returned", "cancelled"}
    /\ file.exists
    /\ loaded.op = "none"
    /\ loaded' = [op |-> "load", val |-> from_toml(file.data)]
    /\ UNCHANGED <<lock, cfg, disk, ret, edit, previous, new, old, out, pc, file,
                   fileBefore, body>>

NextPersist ==
    \/ WriteCreate
    \/ WriteHeader
    \/ WriteSerialize
    \/ WriteBody
    \/ Cancel
    \/ Load

SpecPersist == InitPersist /\ [][NextPersist]_vars

WroteOk == pc = "returned" /\ ret.op = "write_to_file" /\ ret.val = Ok(Unit)

\* C8: a lockfile written in the persisted format (empty local_packages,
\* repo_gpg_config and global_key_specs left out) and loaded back (absent
\* sections empty, absent arch None) equals the original in all five fields,
\* and its packages and local_packages iterate in the same order.
C8_RoundTrip ==
    (WroteOk /\ loaded.op = "load") =>
        /\ IsOk(loaded.val)
        /\ loaded.val[2].pkg_specs = lock.pkg_specs
        /\ loaded.val[2].packages = lock.packages
        /\ loaded.val[2].local_packages = lock.local_packages
        /\ loaded.val[2].repo_gpg_config = lock.repo_gpg_config
        /\ loaded.val[2].global_key_specs = lock.global_key_specs
        /\ Value(file.data, "packages")
             = MapSeq(SerializePackage, IterPackages(loaded.val[2].packages))
        /\ "local_packages" \in Keys(file.data) =>
             Value(file.data, "local_packages")
               = IterLocalPackages(loaded.val[2].local_packages)

C8_Witness ==
    /\ WroteOk
    /\ loaded.op = "load"
    /\ IsOk(loaded.val)
    /\ Keys(file.data) = {"pkg_specs", "packages"}
    /\ Cardinality(lock.packages) = 2
    /\ \E p \in lock.packages : p.arch = None
    /\ loaded.val[2].global_key_specs = <<>>

\* C9 as stated: at every point during and after write_to_file the file holds
\* the complete previous lockfile or the complete new one.
C9_NeverPartiallyOverwritten ==
    file = fileBefore \/ file = Complete(lock)

\* C10: write_to_file returns Ok only when the file holds the two header
\* lines followed by the complete serialization; a step that fails makes it
\* return an error with no later step performed, so a truncated or
\* header-only file never comes with Ok.
C10_FailsLoudly ==
    (pc = "returned" /\ ret.op = "write_to_file") =>
        /\ ret.val = Ok(Unit) => file = Complete(lock)
        /\ ret.val = Ok(Unit) \/ ret.val = Err
        /\ ret.at = "create" => (ret.val = Err /\ file = fileBefore)
        /\ ret.at = "header" =>
              /\ ret.val = Err
              /\ \E n \in 0..(Len(Header) - 1) : file.data = SubSeq(Header, 1, n)
        /\ ret.at = "serialize" => (ret.val = Err /\ file.data = Header)
        /\ ret.at = "body" =>
              /\ ret.val = Err
              /\ \E n \in 0..(Len(to_toml(lock)) - 1) :
                    file.data = Header \o SubSeq(to_toml(lock), 1, n)

C10_Witness ==
    /\ pc = "returned"
    /\ ret.op = "write_to_file"
    /\ ret.val = Err
    /\ ret.at = "header"
    /\ file.data = <<Header[1]>>
    /\ fileBefore = Complete(OlderLockfile)

====
